---- MODULE Spec2Model ----
(***************************************************************************)
(* Model of ebay-seller-restock-bot.js: the startup configuration check,   *)
(* the OAuth token cache (getAccessToken), the request builder             *)
(* (buildReviseInventoryStatusRequest), the Trading call and the poll      *)
(* loop (processItems driven by the start IIFE and setInterval).           *)
(*                                                                         *)
(* JavaScript runs each callback to completion, so one action is one       *)
(* run-to-completion segment: from the event that resumes the code to the  *)
(* next await on a network promise.  Awaits on already settled promises    *)
(* (the cached-token return, the xml2js parse) resume in the microtask     *)
(* queue before any timer or network callback, so they stay inside the     *)
(* segment.                                                                *)
(***************************************************************************)
EXTENDS Integers, Sequences, FiniteSets, TLC

VARIABLES
    env,            \* process.env: the destructured variables of lines 6-14
    ITEM_IDS,       \* line 32
    DESIRED_QTY,    \* line 33, kept as the text a template literal renders
    POLL_MS,        \* line 34
    proc,           \* "boot", "running", "exited"; "build", "built" (builder)
    exitCode,       \* code given to process.exit, -1 while none
    timerArmed,     \* setInterval of line 191 has been called
    nextTickAt,     \* time at which the interval callback is next due
    tickPhase,      \* history: alternates at every interval callback
    now,            \* Date.now()
    cachedToken,    \* line 36
    tokenExpiresAt, \* line 37
    pc,             \* per activation of processItems: where it is waiting
    token,          \* per activation: local `token` of line 162
    xmlBody,        \* per activation: local `xmlBody` of line 170
    refreshReqs,    \* per activation: axios.post calls to IDENTITY_BASE
    tradingReqs,    \* per activation: axios.post calls to TRADING_ENDPOINT
    out,            \* console lines written by the latest handler run
    xmlResponse,    \* the text handed to parseAndLogResponse by that run
    reported        \* what parseAndLogResponse logged from it

vars == <<env, ITEM_IDS, DESIRED_QTY, POLL_MS, proc, exitCode, timerArmed,
          nextTickAt, tickPhase, now, cachedToken, tokenExpiresAt, pc, token, xmlBody, refreshReqs,
          tradingReqs, out, xmlResponse, reported>>

(***************************************************************************)
(* Bounds                                                                  *)
(***************************************************************************)
MaxActive == 2          \* activations of processItems alive at once
MaxNow == 120000        \* last clock value explored (ms)
MaxItems == 2           \* builder: longest item list
MaxIdLen == 2           \* builder: longest identifier, in characters
MaxErrors == 2          \* interpreter: most Errors elements in a response
MaxResults == 2         \* interpreter: most InventoryStatus elements

\* activation records of processItems; a returned one is reused by a later
\* invocation
Cycles == 1..MaxActive

\* clock advances between events (ms)
ClockSteps == {30000}

(***************************************************************************)
(* Program constants                                                       *)
(***************************************************************************)
SafetyMarginMs == 60000
DefaultPollMs == 300000
DefaultExpiresIn == 3600
MsPerSecond == 1000
ExitMissingEnv == 1

(***************************************************************************)
(* JavaScript values                                                       *)
(***************************************************************************)
JSNull == "null"
JSUndefined == "undefined"

\* truthiness of a string-or-null-or-undefined value
Truthy(v) == v \notin {JSNull, JSUndefined, ""}

\* an environment variable is a sequence of characters; an unset variable
\* and an empty one are both falsy and are both the empty sequence here
EnvTruthy(s) == s # <<>>

(***************************************************************************)
(* Startup configuration, lines 16-34                                      *)
(***************************************************************************)
RequiredMissing_NoRefreshToken(e) ==
    \/ ~EnvTruthy(e.EBAY_CLIENT_ID)
    \/ ~EnvTruthy(e.EBAY_CLIENT_SECRET)
    \/ ~EnvTruthy(e.TARGET_ITEM_IDS)

RequiredMissing(e) ==
    \/ ~EnvTruthy(e.EBAY_CLIENT_ID)
    \/ ~EnvTruthy(e.EBAY_CLIENT_SECRET)
    \/ ~EnvTruthy(e.EBAY_REFRESH_TOKEN)
    \/ ~EnvTruthy(e.TARGET_ITEM_IDS)

RECURSIVE IndexOf(_, _, _)
IndexOf(s, ch, i) ==
    IF i > Len(s) THEN 0
    ELSE IF s[i] = ch THEN i
    ELSE IndexOf(s, ch, i + 1)

\* String.prototype.split(',')
RECURSIVE SplitComma(_)
SplitComma(s) ==
    LET i == IndexOf(s, ",", 1)
    IN  IF i = 0 THEN <<s>>
        ELSE <<SubSeq(s, 1, i - 1)>> \o SplitComma(SubSeq(s, i + 1, Len(s)))

\* String.prototype.trim
RECURSIVE Trim(_)
Trim(s) ==
    IF s = <<>> THEN s
    ELSE IF s[1] = " " THEN Trim(Tail(s))
    ELSE IF s[Len(s)] = " " THEN Trim(SubSeq(s, 1, Len(s) - 1))
    ELSE s

MapTrim(parts) == [i \in 1..Len(parts) |-> Trim(parts[i])]

NonEmpty(p) == p # <<>>

\* TARGET_ITEM_IDS.split(',').map(s => s.trim()).filter(Boolean)
ParseItemIds(s) == SelectSeq(MapTrim(SplitComma(s)), NonEmpty)

Digits == {"0", "1", "2", "3", "4", "5", "6", "7", "8", "9"}

\* Number(TARGET_STOCK || 3) as a template literal renders it; the model
\* draws TARGET_STOCK from texts of at most one character
ParseQty(s) ==
    IF ~EnvTruthy(s) THEN "3"
    ELSE IF Len(s) = 1 /\ s[1] \in Digits THEN s[1]
    ELSE "NaN"

\* value of a text of decimal digits
RECURSIVE DigitsValue(_)
DigitsValue(s) ==
    IF s = <<>> THEN 0
    ELSE 10 * DigitsValue(SubSeq(s, 1, Len(s) - 1))
            + (CHOOSE n \in 0..9 : ToString(n) = s[Len(s)])

\* Number(POLL_INTERVAL_MS || 300000); the model draws POLL_INTERVAL_MS
\* from texts of decimal digits
ParsePollMs(s) ==
    IF ~EnvTruthy(s) THEN DefaultPollMs ELSE DigitsValue(s)

(***************************************************************************)
(* Token cache, lines 36-44                                                *)
(***************************************************************************)
CacheFresh_Inclusive(t) ==
    Truthy(cachedToken) /\ t <= tokenExpiresAt - SafetyMarginMs

CacheFresh_Never(t) == FALSE

\* the condition of line 42
CacheFresh(t) ==
    Truthy(cachedToken) /\ t < tokenExpiresAt - SafetyMarginMs

(***************************************************************************)
(* Request builder, lines 68-83.  The body is a sequence of tokens: each   *)
(* tag of the template is one token and each character interpolated from   *)
(* an identifier or the quantity is one token.  Insignificant whitespace   *)
(* of the template is left out.  Identifiers are interpolated verbatim.    *)
(***************************************************************************)
InventoryStatusBlock(id, quantity) ==
    <<"<InventoryStatus>", "<ItemID>">> \o id \o
    <<"</ItemID>", "<Quantity>", quantity, "</Quantity>", "</InventoryStatus>">>

RECURSIVE JoinBlocks(_, _)
JoinBlocks(itemIds, quantity) ==
    IF itemIds = <<>> THEN <<>>
    ELSE InventoryStatusBlock(Head(itemIds), quantity)
            \o JoinBlocks(Tail(itemIds), quantity)

buildReviseInventoryStatusRequest(itemIds, quantity) ==
    <<"<?xml?>", "<ReviseInventoryStatusRequest>">>
        \o JoinBlocks(itemIds, quantity)
        \o <<"</ReviseInventoryStatusRequest>">>

(***************************************************************************)
(* Inputs                                                                  *)
(***************************************************************************)
TokenValues == {"A", "B"}

\* expires_in values a refresh response may carry (seconds)
Lifetimes == {0, 30, 90}

\* axios outcome of the POST of line 52.  ok = FALSE: the promise rejects
\* (non-2xx status or transport error).  hasData = FALSE: res.data is null.
\* access_token is JSUndefined and expires_in is <<>> when the key is absent.
RefreshResponses ==
    {[ok |-> FALSE, hasData |-> FALSE, access_token |-> JSUndefined, expires_in |-> <<>>],
     [ok |-> TRUE, hasData |-> FALSE, access_token |-> JSUndefined, expires_in |-> <<>>]}
    \cup [ok : {TRUE}, hasData : {TRUE},
          access_token : TokenValues \cup {JSUndefined},
          expires_in : {<<>>} \cup {<<n>> : n \in Lifetimes}]

\* child elements of the response root; an absent child is JSUndefined
ErrorElems ==
    {[ErrorCode |-> "10", ShortMessage |-> "s1", LongMessage |-> JSUndefined],
     [ErrorCode |-> "21", ShortMessage |-> "s2", LongMessage |-> "l2"]}

ItemElems ==
    {[ItemID |-> "1", SKU |-> JSUndefined],
     [ItemID |-> "2", SKU |-> "k"]}

NoError == [ErrorCode |-> JSUndefined, ShortMessage |-> JSUndefined,
            LongMessage |-> JSUndefined]

NoItem == [ItemID |-> JSUndefined, SKU |-> JSUndefined]

\* a response without a document
Body(k, wf, root) ==
    [kind |-> k, wellFormed |-> wf, hasRoot |-> root, Ack |-> JSUndefined,
     Errors |-> <<>>, InventoryStatus |-> <<>>]

\* a ReviseInventoryStatusResponse document: the Ack text and the Errors
\* and InventoryStatus elements under the root, in document order
Document(ack, errors, statuses) ==
    [kind |-> "ok", wellFormed |-> TRUE, hasRoot |-> TRUE, Ack |-> ack,
     Errors |-> errors, InventoryStatus |-> statuses]

\* axios outcome of the POST of line 88.  kind "http": rejected with
\* err.response set; "transport": rejected without a response; "ok": 2xx
\* with an XML text that is well formed or not (a blank text counts as
\* not: xml2js resolves null for it and line 120 throws) and has the
\* ReviseInventoryStatusResponse root or not.
TradingResponses ==
    {Body("http", FALSE, FALSE),
     Body("transport", FALSE, FALSE),
     Body("ok", FALSE, FALSE),
     Body("ok", TRUE, FALSE),
     Document("Success", <<>>, <<[ItemID |-> "1", SKU |-> JSUndefined]>>),
     Document("Failure", <<[ErrorCode |-> "21", ShortMessage |-> "s2",
                            LongMessage |-> "l2"]>>, <<>>)}

NoResponse == Body("none", FALSE, FALSE)

\* environments: every combination of present and absent required values
EnvValues ==
    [EBAY_CLIENT_ID : {<<>>, <<"x">>},
     EBAY_CLIENT_SECRET : {<<>>, <<"x">>},
     EBAY_REFRESH_TOKEN : {<<>>, <<"x">>},
     TARGET_ITEM_IDS : {<<>>, <<" ", ",">>, <<"1", ",", " ", "2">>},
     TARGET_STOCK : {<<>>, <<"5">>, <<"a">>},
     POLL_INTERVAL_MS : {<<>>, <<"3", "0", "0", "0", "0">>}]

(***************************************************************************)
(* Initial state: the module-level declarations before line 16 runs        *)
(***************************************************************************)
InitCommon ==
    /\ exitCode = -1
    /\ timerArmed = FALSE
    /\ nextTickAt = 0
    /\ tickPhase = FALSE
    /\ cachedToken = JSNull
    /\ tokenExpiresAt = 0
    /\ pc = [c \in Cycles |-> "idle"]
    /\ token = [c \in Cycles |-> JSUndefined]
    /\ xmlBody = [c \in Cycles |-> <<>>]
    /\ refreshReqs = [c \in Cycles |-> 0]
    /\ tradingReqs = [c \in Cycles |-> 0]
    /\ out = [cycle |-> 0, lines |-> <<>>]

\* nothing logged by parseAndLogResponse
NoReport == [threw |-> FALSE, ack |-> JSUndefined, errors |-> <<>>, items |-> <<>>]

Init ==
    /\ env \in EnvValues
    /\ ITEM_IDS = <<>>
    /\ DESIRED_QTY = ""
    /\ POLL_MS = 0
    /\ proc = "boot"
    /\ now \in ClockSteps
    /\ xmlResponse = NoResponse
    /\ reported = NoReport
    /\ InitCommon

(***************************************************************************)
(* parseAndLogResponse, lines 114-153                                      *)
(***************************************************************************)
\* xml2js with explicitArray: false, for the children of one name: none
\* gives no property, one gives the child itself, several give an array
Xml2jsChildren(elems, none) ==
    [kind |-> IF Len(elems) = 0 THEN "undefined"
              ELSE IF Len(elems) = 1 THEN "object" ELSE "array",
     value |-> IF Len(elems) = 1 THEN elems[1] ELSE none,
     items |-> IF Len(elems) >= 2 THEN elems ELSE <<>>]

\* xml2js.parseStringPromise, lines 115-118
parseStringPromise(xml) ==
    [rejected |-> ~xml.wellFormed,
     hasResp |-> xml.hasRoot,
     Ack |-> xml.Ack,
     Errors |-> Xml2jsChildren(xml.Errors, NoError),
     InventoryStatus |-> Xml2jsChildren(xml.InventoryStatus, NoItem)]

\* Array.isArray(v) ? v : [v], lines 130 and 142-144
AsArray_ArrayOnly(v) == v.items

AsArray(v) == IF v.kind = "array" THEN v.items ELSE <<v.value>>

\* the arguments of console.error, lines 132-137
ErrorLine_NoShortMessage(e) ==
    [ErrorCode |-> e.ErrorCode, ShortMessage |-> JSUndefined,
     LongMessage |-> IF Truthy(e.LongMessage) THEN e.LongMessage ELSE ""]

ErrorLine(e) ==
    [ErrorCode |-> e.ErrorCode, ShortMessage |-> e.ShortMessage,
     LongMessage |-> IF Truthy(e.LongMessage) THEN e.LongMessage ELSE ""]

\* the values interpolated at lines 148-150; SKU "" when none is printed
ItemLine(st, qty) ==
    [ItemID |-> st.ItemID, SetQty |-> qty,
     SKU |-> IF Truthy(st.SKU) THEN st.SKU ELSE ""]

Repeat(line, n) == [i \in 1..n |-> line]

\* what the function logs, and whether its promise rejects
parseAndLogResponse_ThrowNoRoot(xml, qty) ==
    LET parsed == parseStringPromise(xml)
        errors == IF parsed.Errors.kind # "undefined"
                  THEN AsArray(parsed.Errors) ELSE <<>>
        statuses == IF parsed.InventoryStatus.kind # "undefined"
                    THEN AsArray(parsed.InventoryStatus) ELSE <<>>
    IN  IF parsed.rejected
        THEN [threw |-> TRUE, lines |-> <<>>, ack |-> JSUndefined,
              errors |-> <<>>, items |-> <<>>]
        ELSE IF ~parsed.hasResp
        THEN [threw |-> TRUE, lines |-> <<"PARSE_UNEXPECTED">>,
              ack |-> JSUndefined, errors |-> <<>>, items |-> <<>>]
        ELSE [threw |-> FALSE,
              lines |-> <<"ACK">> \o Repeat("ERROR", Len(errors))
                            \o Repeat("ITEM", Len(statuses)),
              ack |-> parsed.Ack,
              errors |-> [i \in 1..Len(errors) |-> ErrorLine(errors[i])],
              items |-> [i \in 1..Len(statuses) |-> ItemLine(statuses[i], qty)]]

parseAndLogResponse(xml, qty) ==
    LET parsed == parseStringPromise(xml)
        errors == IF parsed.Errors.kind # "undefined"
                  THEN AsArray(parsed.Errors) ELSE <<>>
        statuses == IF parsed.InventoryStatus.kind # "undefined"
                    THEN AsArray(parsed.InventoryStatus) ELSE <<>>
    IN  IF parsed.rejected
        THEN [threw |-> TRUE, lines |-> <<>>, ack |-> JSUndefined,
              errors |-> <<>>, items |-> <<>>]
        ELSE IF ~parsed.hasResp
        THEN [threw |-> FALSE, lines |-> <<"PARSE_UNEXPECTED">>,
              ack |-> JSUndefined, errors |-> <<>>, items |-> <<>>]
        ELSE [threw |-> FALSE,
              lines |-> <<"ACK">> \o Repeat("ERROR", Len(errors))
                            \o Repeat("ITEM", Len(statuses)),
              ack |-> parsed.Ack,
              errors |-> [i \in 1..Len(errors) |-> ErrorLine(errors[i])],
              items |-> [i \in 1..Len(statuses) |-> ItemLine(statuses[i], qty)]]

Report(p) == [threw |-> p.threw, ack |-> p.ack, errors |-> p.errors, items |-> p.items]

(***************************************************************************)
(* processItems, lines 156-181, and getAccessToken, lines 40-65            *)
(***************************************************************************)
\* lines 170-174 up to the await on axios.post of line 88; sentBefore is
\* the number of Trading calls the activation has made so far
SendTrading(c, tok, ids, qty, sentBefore) ==
    /\ token' = [token EXCEPT ![c] = tok]
    /\ xmlBody' = [xmlBody EXCEPT ![c] = buildReviseInventoryStatusRequest(ids, qty)]
    /\ tradingReqs' = [tradingReqs EXCEPT ![c] = sentBefore + 1]
    /\ pc' = [pc EXCEPT ![c] = "awaitTrading"]

\* processItems returns; the first invocation is the one the start IIFE
\* awaits at line 189, and its continuation calls setInterval (line 191)
EndCycle(c, lines) ==
    /\ pc' = [pc EXCEPT ![c] = "done"]
    /\ out' = [cycle |-> c, lines |-> lines]
    /\ IF timerArmed
       THEN UNCHANGED <<timerArmed, nextTickAt>>    \* invoked by the interval
       ELSE /\ timerArmed' = TRUE                   \* the one awaited at line 189
            /\ nextTickAt' = now + POLL_MS

\* lines 157-164 and 41-57: from the call of processItems, in a fresh
\* activation record c, to its first await on a network promise
ProcessItemsStart(c, ids, qty) ==
    /\ IF CacheFresh(now)
       THEN /\ SendTrading(c, cachedToken, ids, qty, 0)
            /\ refreshReqs' = [refreshReqs EXCEPT ![c] = 0]
            /\ out' = [cycle |-> c, lines |-> <<"POLL_START", "INFO", "DEBUG">>]
       ELSE /\ refreshReqs' = [refreshReqs EXCEPT ![c] = 1]
            /\ pc' = [pc EXCEPT ![c] = "awaitRefresh"]
            /\ token' = [token EXCEPT ![c] = JSUndefined]
            /\ xmlBody' = [xmlBody EXCEPT ![c] = <<>>]
            /\ tradingReqs' = [tradingReqs EXCEPT ![c] = 0]
            /\ out' = [cycle |-> c, lines |-> <<"POLL_START", "INFO", "AUTH_REFRESHING">>]
    /\ UNCHANGED <<cachedToken, tokenExpiresAt>>

\* lines 16-34 and 184-189: the synchronous run of the script
Startup_ArmFirst ==
    /\ proc = "boot"
    /\ IF RequiredMissing(env)
       THEN /\ proc' = "exited"
            /\ exitCode' = ExitMissingEnv
            /\ out' = [cycle |-> 0, lines |-> <<"MISSING_ENV">>]
            /\ UNCHANGED <<ITEM_IDS, DESIRED_QTY, POLL_MS, pc, token, xmlBody,
                           refreshReqs, tradingReqs, cachedToken, tokenExpiresAt,
                           timerArmed, nextTickAt>>
       ELSE /\ proc' = "running"
            /\ ITEM_IDS' = ParseItemIds(env.TARGET_ITEM_IDS)
            /\ DESIRED_QTY' = ParseQty(env.TARGET_STOCK)
            /\ POLL_MS' = ParsePollMs(env.POLL_INTERVAL_MS)
            /\ ProcessItemsStart(1, ITEM_IDS', DESIRED_QTY')
            /\ timerArmed' = TRUE
            /\ nextTickAt' = now + POLL_MS'
            /\ UNCHANGED exitCode
    /\ xmlResponse' = NoResponse
    /\ reported' = NoReport
    /\ UNCHANGED <<env, tickPhase, now>>

Startup ==
    /\ proc = "boot"
    /\ IF RequiredMissing(env)
       THEN /\ proc' = "exited"
            /\ exitCode' = ExitMissingEnv
            /\ out' = [cycle |-> 0, lines |-> <<"MISSING_ENV">>]
            /\ UNCHANGED <<ITEM_IDS, DESIRED_QTY, POLL_MS, pc, token, xmlBody, refreshReqs,
                           tradingReqs, cachedToken, tokenExpiresAt>>
       ELSE /\ proc' = "running"
            /\ ITEM_IDS' = ParseItemIds(env.TARGET_ITEM_IDS)
            /\ DESIRED_QTY' = ParseQty(env.TARGET_STOCK)
            /\ POLL_MS' = ParsePollMs(env.POLL_INTERVAL_MS)
            /\ ProcessItemsStart(1, ITEM_IDS', DESIRED_QTY')
            /\ UNCHANGED exitCode
    /\ xmlResponse' = NoResponse
    /\ reported' = NoReport
    /\ UNCHANGED <<env, timerArmed, nextTickAt, tickPhase, now>>

\* activation records not in use
FreeCycles == {c \in Cycles : pc[c] \in {"idle", "done"}}

\* the interval callback is due
TickDue == timerArmed /\ now >= nextTickAt

\* lines 191-195: the interval callback, run every POLL_MS.  It does not
\* look at whether an earlier invocation has returned.  (That a record is
\* free is the bound MaxActive, not a condition of the code.)
Tick ==
    /\ proc = "running"
    /\ TickDue
    /\ FreeCycles # {}
    /\ nextTickAt' = now + POLL_MS
    /\ LET c == CHOOSE x \in FreeCycles : \A y \in FreeCycles : x <= y
       IN  ProcessItemsStart(c, ITEM_IDS, DESIRED_QTY)
    /\ tickPhase' = ~tickPhase
    /\ xmlResponse' = NoResponse
    /\ reported' = NoReport
    /\ UNCHANGED <<env, ITEM_IDS, DESIRED_QTY, POLL_MS, proc, exitCode,
                   timerArmed, now>>

\* the catch of lines 165-168 after the await of line 164 threw
OnRefreshError_Retry(c) ==
    /\ IF refreshReqs[c] < 2
       THEN /\ refreshReqs' = [refreshReqs EXCEPT ![c] = @ + 1]
            /\ out' = [cycle |-> c, lines |-> <<"AUTH_REFRESHING">>]
            /\ UNCHANGED <<pc, timerArmed, nextTickAt>>
       ELSE /\ EndCycle(c, <<"FATAL_AUTH">>)
            /\ UNCHANGED refreshReqs
    /\ UNCHANGED <<cachedToken, tokenExpiresAt, token, xmlBody, tradingReqs,
                   proc, exitCode>>

OnRefreshError_ClearCache(c) ==
    /\ EndCycle(c, <<"FATAL_AUTH">>)
    /\ cachedToken' = JSNull
    /\ UNCHANGED <<tokenExpiresAt, token, xmlBody, refreshReqs, tradingReqs,
                   proc, exitCode>>

OnRefreshError_Exit(c) ==
    /\ pc' = [pc EXCEPT ![c] = "done"]
    /\ out' = [cycle |-> c, lines |-> <<"FATAL_AUTH">>]
    /\ proc' = "exited"
    /\ exitCode' = 1
    /\ UNCHANGED <<timerArmed, nextTickAt, cachedToken, tokenExpiresAt, token,
                   xmlBody, refreshReqs, tradingReqs>>

OnRefreshError(c) ==
    /\ EndCycle(c, <<"FATAL_AUTH">>)
    /\ UNCHANGED <<cachedToken, tokenExpiresAt, token, xmlBody, refreshReqs,
                   tradingReqs, proc, exitCode>>

\* data.expires_in || 3600, line 61
ExpiresIn(r) ==
    IF r.expires_in = <<>> \/ r.expires_in[1] = 0
    THEN DefaultExpiresIn
    ELSE r.expires_in[1]

\* lines 59-64 and then 170-174
OnRefreshSuccess_TokenOnly(c, r) ==
    /\ cachedToken' = r.access_token
    /\ UNCHANGED tokenExpiresAt
    /\ SendTrading(c, r.access_token, ITEM_IDS, DESIRED_QTY, tradingReqs[c])
    /\ out' = [cycle |-> c, lines |-> <<"AUTH_REFRESHED", "DEBUG">>]
    /\ UNCHANGED <<refreshReqs, timerArmed, nextTickAt, proc, exitCode>>

OnRefreshSuccess(c, r) ==
    /\ cachedToken' = r.access_token
    /\ tokenExpiresAt' = now + ExpiresIn(r) * MsPerSecond
    /\ SendTrading(c, r.access_token, ITEM_IDS, DESIRED_QTY, tradingReqs[c])
    /\ out' = [cycle |-> c, lines |-> <<"AUTH_REFRESHED", "DEBUG">>]
    /\ UNCHANGED <<refreshReqs, timerArmed, nextTickAt, proc, exitCode>>

\* the promise of line 52 settles
RefreshResponse(c, r) ==
    /\ proc = "running"
    /\ pc[c] = "awaitRefresh"
    /\ IF r.ok /\ r.hasData
       THEN OnRefreshSuccess(c, r)
       ELSE OnRefreshError(c)   \* rejection, or the TypeError of line 60
    /\ xmlResponse' = NoResponse
    /\ reported' = NoReport
    /\ UNCHANGED <<env, ITEM_IDS, DESIRED_QTY, POLL_MS, now, tickPhase>>

\* lines 102-110, then the catch of lines 176-178 and line 180
OnTradingError_Retry(c, r) ==
    /\ IF tradingReqs[c] < 2
       THEN /\ tradingReqs' = [tradingReqs EXCEPT ![c] = @ + 1]
            /\ out' = [cycle |-> c, lines |-> <<"DEBUG">>]
            /\ UNCHANGED <<pc, timerArmed, nextTickAt>>
       ELSE /\ EndCycle(c, <<"FATAL_TRADING", "POLL_END">>)
            /\ UNCHANGED tradingReqs
    /\ UNCHANGED <<proc, exitCode>>

OnTradingError_Exit(c, r) ==
    /\ pc' = [pc EXCEPT ![c] = "done"]
    /\ out' = [cycle |-> c, lines |-> <<"FATAL_TRADING">>]
    /\ proc' = "exited"
    /\ exitCode' = 1
    /\ UNCHANGED <<timerArmed, nextTickAt, tradingReqs>>

OnTradingError_NoEnd(c, r) ==
    /\ EndCycle(c, <<IF r.kind = "http" THEN "TRADING_ERROR_HTTP" ELSE "TRADING_ERROR",
                     "FATAL_TRADING">>)
    /\ UNCHANGED <<tradingReqs, proc, exitCode>>

OnTradingError(c, r) ==
    /\ EndCycle(c, <<IF r.kind = "http" THEN "TRADING_ERROR_HTTP" ELSE "TRADING_ERROR",
                     "FATAL_TRADING", "POLL_END">>)
    /\ UNCHANGED <<tradingReqs, proc, exitCode>>

\* line 175, then the catch of lines 176-178 if it threw, and line 180
OnTradingOk(c, r) ==
    /\ LET p == parseAndLogResponse(r, DESIRED_QTY)
       IN  EndCycle(c, p.lines
                        \o (IF p.threw THEN <<"FATAL_TRADING">> ELSE <<>>)
                        \o <<"POLL_END">>)
    /\ UNCHANGED <<tradingReqs, proc, exitCode>>

\* the promise of line 88 settles
TradingResponse_DropToken(c, r) ==
    /\ proc = "running"
    /\ pc[c] = "awaitTrading"
    /\ IF r.kind = "ok" THEN OnTradingOk(c, r) ELSE OnTradingError(c, r)
    /\ xmlResponse' = IF r.kind = "ok" THEN r ELSE NoResponse
    /\ reported' = IF r.kind = "ok"
                   THEN Report(parseAndLogResponse(r, DESIRED_QTY))
                   ELSE NoReport
    /\ cachedToken' = IF r.kind = "http" THEN JSNull ELSE cachedToken
    /\ UNCHANGED <<env, ITEM_IDS, DESIRED_QTY, POLL_MS, now, tickPhase,
                   tokenExpiresAt, token, xmlBody, refreshReqs>>

TradingResponse(c, r) ==
    /\ proc = "running"
    /\ pc[c] = "awaitTrading"
    /\ IF r.kind = "ok" THEN OnTradingOk(c, r) ELSE OnTradingError(c, r)
    /\ xmlResponse' = IF r.kind = "ok" THEN r ELSE NoResponse
    /\ reported' = IF r.kind = "ok"
                   THEN Report(parseAndLogResponse(r, DESIRED_QTY))
                   ELSE NoReport
    /\ UNCHANGED <<env, ITEM_IDS, DESIRED_QTY, POLL_MS, now, tickPhase, cachedToken,
                   tokenExpiresAt, token, xmlBody, refreshReqs>>

\* time passes between two events; a due interval callback runs first (the
\* handlers are short, so the event loop is idle when the timer expires)
Advance(d) ==
    /\ proc = "running"
    /\ ~TickDue
    /\ now + d <= MaxNow
    /\ now' = now + d
    /\ out' = [cycle |-> 0, lines |-> <<>>]
    /\ xmlResponse' = NoResponse
    /\ reported' = NoReport
    /\ UNCHANGED <<env, ITEM_IDS, DESIRED_QTY, POLL_MS, proc, exitCode,
                   timerArmed, nextTickAt, tickPhase, cachedToken, tokenExpiresAt, pc, token, xmlBody,
                   refreshReqs, tradingReqs>>

Next ==
    \/ Startup
    \/ Tick
    \/ \E c \in Cycles, r \in RefreshResponses : RefreshResponse(c, r)
    \/ \E c \in Cycles, r \in TradingResponses : TradingResponse(c, r)
    \/ \E d \in ClockSteps : Advance(d)

Spec == Init /\ [][Next]_vars

\* the clock moves on and the event loop runs a due interval callback
FairSpec == Spec /\ WF_vars(Tick) /\ WF_vars(\E d \in ClockSteps : Advance(d))

(***************************************************************************)
(* The request builder on its own: buildReviseInventoryStatusRequest       *)
(* applied to item lists and quantities drawn from bounded sets.  An       *)
(* identifier is any non-empty text without commas and outer blanks, which *)
(* is what line 32 lets through; its characters may spell markup.          *)
(***************************************************************************)
IdChars == {"1", "</ItemID>", "<InventoryStatus>"}

Quantities == {"3", "5", "NaN"}

SeqsUpTo(S, n) == UNION {[1..k -> S] : k \in 0..n}

BuilderIds == SeqsUpTo(IdChars, MaxIdLen) \ {<<>>}

BuilderItemLists == SeqsUpTo(BuilderIds, MaxItems)

InitBuild ==
    /\ env = [EBAY_CLIENT_ID |-> <<"x">>, EBAY_CLIENT_SECRET |-> <<"x">>,
              EBAY_REFRESH_TOKEN |-> <<"x">>, TARGET_ITEM_IDS |-> <<"1">>,
              TARGET_STOCK |-> <<>>, POLL_INTERVAL_MS |-> <<>>]
    /\ ITEM_IDS \in BuilderItemLists
    /\ DESIRED_QTY \in Quantities
    /\ POLL_MS = 0
    /\ proc = "build"
    /\ now \in ClockSteps
    /\ xmlResponse = NoResponse
    /\ reported = NoReport
    /\ InitCommon

\* line 170
Build ==
    /\ proc = "build"
    /\ proc' = "built"
    /\ xmlBody' = [xmlBody EXCEPT ![1] =
                      buildReviseInventoryStatusRequest(ITEM_IDS, DESIRED_QTY)]
    /\ UNCHANGED <<env, ITEM_IDS, DESIRED_QTY, POLL_MS, exitCode, timerArmed,
                   nextTickAt, tickPhase, now, cachedToken, tokenExpiresAt, pc, token, refreshReqs,
                   tradingReqs, out, xmlResponse, reported>>

NextBuild == Build

SpecBuild == InitBuild /\ [][NextBuild]_vars

(***************************************************************************)
(* The response interpreter on its own: parseAndLogResponse applied to     *)
(* response texts drawn from bounded sets.  Every Errors and               *)
(* InventoryStatus element carries at least one child.                     *)
(***************************************************************************)
ParseInputs ==
    {Body("ok", FALSE, FALSE), Body("ok", TRUE, FALSE)}
    \cup {Document(a, e, st) : a \in {JSUndefined, "Success", "Failure"},
                               e \in SeqsUpTo(ErrorElems, MaxErrors),
                               st \in SeqsUpTo(ItemElems, MaxResults)}

InitParse ==
    /\ env = [EBAY_CLIENT_ID |-> <<"x">>, EBAY_CLIENT_SECRET |-> <<"x">>,
              EBAY_REFRESH_TOKEN |-> <<"x">>, TARGET_ITEM_IDS |-> <<"1">>,
              TARGET_STOCK |-> <<>>, POLL_INTERVAL_MS |-> <<>>]
    /\ ITEM_IDS = <<>>
    /\ DESIRED_QTY \in Quantities
    /\ POLL_MS = 0
    /\ proc = "parse"
    /\ now \in ClockSteps
    /\ xmlResponse \in ParseInputs
    /\ reported = NoReport
    /\ InitCommon

\* line 175
Parse ==
    /\ proc = "parse"
    /\ proc' = "parsed"
    /\ LET p == parseAndLogResponse(xmlResponse, DESIRED_QTY)
       IN  /\ reported' = Report(p)
           /\ out' = [cycle |-> 0, lines |-> p.lines]
    /\ UNCHANGED <<env, ITEM_IDS, DESIRED_QTY, POLL_MS, exitCode, timerArmed,
                   nextTickAt, tickPhase, now, cachedToken, tokenExpiresAt, pc,
                   token, xmlBody, refreshReqs, tradingReqs, xmlResponse>>

NextParse == Parse

SpecParse == InitParse /\ [][NextParse]_vars

(***************************************************************************)
(* Properties                                                              *)
(***************************************************************************)
Active(c) == pc[c] \in {"awaitRefresh", "awaitTrading"}

\* the step in which processItems is invoked in activation record c, and
\* with it getAccessToken is called
Starts(c) == pc[c] \in {"idle", "done"} /\ pc'[c] \notin {"idle", "done"}

MoreThanMarginLeft == Truthy(cachedToken) /\ now < tokenExpiresAt - SafetyMarginMs

\* C1: a call of getAccessToken made while a token is cached and more than
\* 60 seconds remain before its expiry issues no refresh request, returns
\* the cached token and leaves the cached token and expiry unchanged.
C1_CacheHitNoRefresh ==
    [][\A c \in Cycles :
        (Starts(c) /\ MoreThanMarginLeft) =>
            /\ refreshReqs'[c] = 0
            /\ pc'[c] = "awaitTrading"
            /\ token'[c] = cachedToken
            /\ cachedToken' = cachedToken
            /\ tokenExpiresAt' = tokenExpiresAt]_vars

\* a later invocation has reused the cached token without a refresh
C1_Witness ==
    \E c \in Cycles :
        /\ pc[c] = "awaitTrading"
        /\ refreshReqs[c] = 0
        /\ token[c] = cachedToken
        /\ Truthy(cachedToken)
        /\ now < tokenExpiresAt - SafetyMarginMs

\* C2: a call of getAccessToken made while no token is cached, or while the
\* expiry is 60 seconds away or less or has passed, issues exactly one
\* refresh request: one when it is made, and no other while it waits.
C2_CacheMissOneRefresh ==
    /\ [](\A c \in Cycles : pc[c] = "awaitRefresh" => refreshReqs[c] = 1)
    /\ [][\A c \in Cycles :
            /\ (Starts(c) /\ ~MoreThanMarginLeft) =>
                    (pc'[c] = "awaitRefresh" /\ refreshReqs'[c] = 1)
            /\ (pc[c] = "awaitRefresh" /\ pc'[c] # "awaitRefresh") =>
                    refreshReqs'[c] = 1]_vars

\* a refresh is under way for a cached token exactly 60 seconds from expiry
C2_Witness ==
    \E c \in Cycles :
        /\ pc[c] = "awaitRefresh"
        /\ refreshReqs[c] = 1
        /\ Truthy(cachedToken)
        /\ now = tokenExpiresAt - SafetyMarginMs

\* the latest handler run ended a cycle on a failed token acquisition or a
\* failed Trading call
CycleFailed ==
    /\ out.cycle \in Cycles
    /\ out.lines # <<>>
    /\ out.lines[1] \in {"FATAL_AUTH", "TRADING_ERROR_HTTP", "TRADING_ERROR"}

\* C3: a failed token acquisition or Trading call ends its own cycle only:
\* the process keeps running with the interval timer armed, the other
\* cycles stay where they are, and a later interval callback starts the
\* next cycle.
C3_FailureEndsOnlyCycle ==
    /\ [](CycleFailed => (proc = "running" /\ timerArmed /\ pc[out.cycle] = "done"))
    /\ [][CycleFailed' =>
            \A d \in Cycles : d # out'.cycle => pc'[d] = pc[d]]_vars
    /\ \A b \in BOOLEAN :
            (CycleFailed /\ tickPhase = b /\ nextTickAt <= MaxNow)
                ~> (tickPhase # b /\ proc = "running")

\* a Trading call has just failed with a non-2xx response
C3_Witness ==
    /\ CycleFailed
    /\ out.lines[1] = "TRADING_ERROR_HTTP"
    /\ proc = "running"

\* C4: at most one invocation of processItems is executing at any moment.
C4_AtMostOneCycle == Cardinality({c \in Cycles : Active(c)}) <= 1

\* C5: when the refresh call errors, getAccessToken throws: the cycle ends
\* at the catch of line 165 with the cache as it was and without a Trading
\* call; the call did not touch the cache when it issued the request
\* either.
C5_RefreshErrorLeavesCache ==
    [][\A c \in Cycles :
        /\ \A r \in RefreshResponses :
              (~r.ok /\ RefreshResponse(c, r)) =>
                  /\ cachedToken' = cachedToken
                  /\ tokenExpiresAt' = tokenExpiresAt
                  /\ pc'[c] = "done"
                  /\ out' = [cycle |-> c, lines |-> <<"FATAL_AUTH">>]
                  /\ tradingReqs'[c] = 0
                  /\ token'[c] = JSUndefined
        /\ (Starts(c) /\ pc'[c] = "awaitRefresh") =>
              (cachedToken' = cachedToken /\ tokenExpiresAt' = tokenExpiresAt)]_vars

\* a refresh has just failed while a token was cached
C5_Witness ==
    /\ out.cycle \in Cycles
    /\ out.lines = <<"FATAL_AUTH">>
    /\ Truthy(cachedToken)
    /\ tradingReqs[out.cycle] = 0

\* C6: no Trading call is issued with an absent or empty token.
C6_NoCallWithoutToken ==
    \A c \in Cycles : tradingReqs[c] > 0 => Truthy(token[c])

EnvIncomplete ==
    \/ env.EBAY_CLIENT_ID = <<>>
    \/ env.EBAY_CLIENT_SECRET = <<>>
    \/ env.EBAY_REFRESH_TOKEN = <<>>
    \/ env.TARGET_ITEM_IDS = <<>>

\* C7: with a required configuration value missing the process exits with
\* code 1 at startup, and no poll cycle and no network call is ever made.
C7_MissingEnvExits ==
    /\ [](EnvIncomplete =>
            /\ proc \in {"boot", "exited"}
            /\ proc = "exited" => exitCode = 1
            /\ \A c \in Cycles :
                  pc[c] = "idle" /\ refreshReqs[c] = 0 /\ tradingReqs[c] = 0)
    /\ [][(EnvIncomplete /\ proc = "boot") =>
            (proc' = "exited" /\ exitCode' = 1)]_vars

\* the process has exited because only the item list was missing
C7_Witness ==
    /\ proc = "exited"
    /\ exitCode = 1
    /\ env.TARGET_ITEM_IDS = <<>>
    /\ env.EBAY_CLIENT_ID # <<>>
    /\ env.EBAY_CLIENT_SECRET # <<>>
    /\ env.EBAY_REFRESH_TOKEN # <<>>

\* C8: one poll cycle issues at most one refresh request and at most one
\* Trading call, whatever their outcomes.
C8_NoRetry ==
    \A c \in Cycles : refreshReqs[c] <= 1 /\ tradingReqs[c] <= 1

\* a cycle that refreshed and then failed its Trading call has returned
C8_Witness ==
    /\ CycleFailed
    /\ out.lines[1] \in {"TRADING_ERROR_HTTP", "TRADING_ERROR"}
    /\ pc[out.cycle] = "done"
    /\ refreshReqs[out.cycle] = 1
    /\ tradingReqs[out.cycle] = 1

\* C9: the cache starts with both fields empty, and every step that changes
\* the token or the expiry writes both from one refresh response.
C9_CacheReplacedWholesale ==
    /\ (cachedToken = JSNull /\ tokenExpiresAt = 0)
    /\ [][(cachedToken' # cachedToken \/ tokenExpiresAt' # tokenExpiresAt) =>
            \E c \in Cycles, r \in RefreshResponses :
                /\ r.ok /\ r.hasData
                /\ pc[c] = "awaitRefresh"
                /\ cachedToken' = r.access_token
                /\ tokenExpiresAt' = now + ExpiresIn(r) * MsPerSecond]_vars

\* a refreshed cache is seen by one cycle waiting on its refresh while
\* another waits on its Trading call
C9_Witness ==
    \E c, d \in Cycles :
        /\ pc[c] = "awaitRefresh"
        /\ pc[d] = "awaitTrading"
        /\ Truthy(cachedToken)
        /\ tokenExpiresAt > now

\* reading a request body back: the k-th InventoryStatus element starts at
\* the k-th opening tag; the text of a child element runs from its opening
\* tag to the next closing tag
RECURSIVE NextPos(_, _, _)
NextPos(xml, tag, from) ==
    IF from > Len(xml) THEN Len(xml) + 1
    ELSE IF xml[from] = tag THEN from
    ELSE NextPos(xml, tag, from + 1)

TextOf(xml, open, close, from) ==
    LET a == NextPos(xml, open, from)
        b == NextPos(xml, close, a + 1)
    IN  SubSeq(xml, a + 1, b - 1)

RECURSIVE ReadBlocks(_, _)
ReadBlocks(xml, from) ==
    LET p == NextPos(xml, "<InventoryStatus>", from)
    IN  IF p > Len(xml) THEN <<>>
        ELSE <<[ItemID |-> TextOf(xml, "<ItemID>", "</ItemID>", p + 1),
                Quantity |-> TextOf(xml, "<Quantity>", "</Quantity>", p + 1)]>>
                \o ReadBlocks(xml, p + 1)

\* C10: the built request holds one InventoryStatus block per input item,
\* in input order, with that item's identifier and the shared quantity, and
\* no other block.
C10_OneBlockPerItem ==
    proc = "built" =>
        ReadBlocks(xmlBody[1], 1) =
            [i \in 1..Len(ITEM_IDS) |->
                [ItemID |-> ITEM_IDS[i], Quantity |-> <<DESIRED_QTY>>]]

\* the interpreter has run on a ReviseInventoryStatusResponse document
Interpreted ==
    /\ proc = "parsed"
    /\ xmlResponse.wellFormed
    /\ xmlResponse.hasRoot

CountOf(lines, line) == Cardinality({i \in 1..Len(lines) : lines[i] = line})

\* C11: a response with N >= 1 InventoryStatus results is reported as N
\* item records, one per result in document order, also when N = 1.
C11_OneRecordPerResult ==
    (Interpreted /\ Len(xmlResponse.InventoryStatus) >= 1) =>
        /\ Len(reported.items) = Len(xmlResponse.InventoryStatus)
        /\ CountOf(out.lines, "ITEM") = Len(xmlResponse.InventoryStatus)
        /\ \A i \in 1..Len(xmlResponse.InventoryStatus) :
              reported.items[i].ItemID = xmlResponse.InventoryStatus[i].ItemID

\* a response with a single result has been reported as one record
C11_Witness ==
    /\ Interpreted
    /\ Len(xmlResponse.InventoryStatus) = 1
    /\ Len(reported.items) = 1

\* C12: every Errors block of a response is reported with its code and
\* short message, one report per block; a response without Errors reports
\* none and the interpreter does not fail.
C12_EveryErrorReported ==
    Interpreted =>
        /\ ~reported.threw
        /\ Len(reported.errors) = Len(xmlResponse.Errors)
        /\ CountOf(out.lines, "ERROR") = Len(xmlResponse.Errors)
        /\ \A i \in 1..Len(xmlResponse.Errors) :
              /\ reported.errors[i].ErrorCode = xmlResponse.Errors[i].ErrorCode
              /\ reported.errors[i].ShortMessage = xmlResponse.Errors[i].ShortMessage

\* a response with one Errors block has been reported
C12_Witness ==
    /\ Interpreted
    /\ Len(xmlResponse.Errors) = 1
    /\ Len(reported.errors) = 1
    /\ reported.errors[1].ShortMessage # JSUndefined

\* the cycle logged the unexpected response and its end, and nothing else
SilentlyUnexpected ==
    /\ out.lines = <<"PARSE_UNEXPECTED", "POLL_END">>
    /\ reported = NoReport
    /\ out.cycle \in Cycles
    /\ pc[out.cycle] = "done"

\* C13 as claimed: whenever the response has no ReviseInventoryStatusResponse
\* root, the interpreter logs it and returns without failing.
C13_NoRootSilent ==
    (xmlResponse.kind = "ok" /\ ~xmlResponse.hasRoot) => SilentlyUnexpected

\* C13: a well-formed response without the ReviseInventoryStatusResponse
\* root is logged as unexpected, nothing else is reported, the interpreter
\* does not fail and the cycle logs its end.
C13_WellFormedNoRootSilent ==
    (xmlResponse.kind = "ok" /\ xmlResponse.wellFormed /\ ~xmlResponse.hasRoot)
        => SilentlyUnexpected

\* a cycle has just ended on a well-formed response without the root
C13_Witness ==
    /\ xmlResponse = Body("ok", TRUE, FALSE)
    /\ out.lines = <<"PARSE_UNEXPECTED", "POLL_END">>
    /\ proc = "running"

\* C14: a successful refresh stores the time of processing plus the returned
\* lifetime, and the default of 3600 s exactly when no lifetime is returned.
C14_ExpiryFromLifetime ==
    [][\A c \in Cycles, r \in RefreshResponses :
        (r.ok /\ r.hasData /\ RefreshResponse(c, r)) =>
            tokenExpiresAt' =
                now + (IF r.expires_in = <<>> THEN DefaultExpiresIn
                       ELSE r.expires_in[1]) * MsPerSecond]_vars

\* the step in which an invocation of processItems returns
Returns(c) == Active(c) /\ pc'[c] = "done"

\* C15 as claimed: every cycle that returns logs its end boundary.
C15_EndAlwaysLogged ==
    [][\A c \in Cycles :
        Returns(c) => out'.lines[Len(out'.lines)] = "POLL_END"]_vars

\* C15: every cycle logs its start boundary when invoked; one that returns
\* after its Trading call was issued logs its end boundary last, also when
\* the call or the interpretation failed; one that returns on a failed token
\* acquisition logs the failure and no end boundary.
C15_EndLoggedAfterTrading ==
    [][\A c \in Cycles :
        /\ Starts(c) => (out'.cycle = c /\ out'.lines[1] = "POLL_START")
        /\ (pc[c] = "awaitTrading" /\ pc'[c] = "done") =>
              /\ out'.cycle = c
              /\ out'.lines[Len(out'.lines)] = "POLL_END"
              /\ CountOf(out'.lines, "POLL_END") = 1
        /\ (pc[c] = "awaitRefresh" /\ pc'[c] = "done") =>
              out' = [cycle |-> c, lines |-> <<"FATAL_AUTH">>]]_vars

\* a cycle has just ended on a failed Trading call, end boundary last
C15_Witness ==
    /\ out.cycle \in Cycles
    /\ Len(out.lines) = 3
    /\ out.lines[2] = "FATAL_TRADING"
    /\ out.lines[3] = "POLL_END"

\* C16: startup invokes the first cycle; until it returns the interval is
\* not armed and no other cycle exists; the interval is armed by the step
\* in which the first cycle returns, and only an armed interval starts a
\* further cycle.
C16_TimerArmedAfterFirstCycle ==
    /\ []((proc = "running" /\ ~timerArmed) =>
            /\ Active(1)
            /\ ~tickPhase
            /\ \A c \in Cycles \ {1} : pc[c] = "idle")
    /\ [][/\ (proc = "boot" /\ proc' = "running") => (Active(1))'
          /\ (~timerArmed /\ timerArmed') => (Active(1) /\ pc'[1] = "done")
          /\ (proc = "running" /\ \E c \in Cycles : Starts(c)) => timerArmed]_vars

\* the first cycle is still waiting after more than one poll interval has
\* passed, and no other cycle has been started
C16_Witness ==
    /\ proc = "running"
    /\ ~timerArmed
    /\ Active(1)
    /\ now = MaxNow
    /\ POLL_MS < MaxNow

\* C17: the Trading call and the interpretation of its response leave the
\* cache as it is, whatever the outcome; the cache changes only in the step
\* that processes a refresh response; so an invocation that finds more than
\* 60 seconds left uses the cached token without a refresh.
C17_OnlyRefreshWritesCache ==
    [][/\ \A c \in Cycles, r \in TradingResponses :
            TradingResponse(c, r) =>
                (cachedToken' = cachedToken /\ tokenExpiresAt' = tokenExpiresAt)
       /\ (cachedToken' # cachedToken \/ tokenExpiresAt' # tokenExpiresAt) =>
            \E c \in Cycles : pc[c] = "awaitRefresh" /\ pc'[c] = "awaitTrading"
       /\ \A c \in Cycles :
            (Starts(c) /\ MoreThanMarginLeft) =>
                (token'[c] = cachedToken /\ refreshReqs'[c] = 0)]_vars

\* a Trading call made with the cached token has just been rejected, and
\* that token is still cached with more than 60 seconds left
C17_Witness ==
    /\ CycleFailed
    /\ out.lines[1] = "TRADING_ERROR_HTTP"
    /\ token[out.cycle] = cachedToken
    /\ MoreThanMarginLeft

====
